---- MODULE Spec2Model ----
(***************************************************************************)
(* SoutExGain (src/main/src/lib.rs): a gain plugin with a tempo-synced     *)
(* decay envelope and a web-view editor.                                   *)
(*                                                                         *)
(* Three threads of control are modelled:                                  *)
(*   - the editor's event-loop handler (lib.rs 188-236), run once per GUI  *)
(*     frame: it drains the inbound channel, then tests gain's flag;       *)
(*   - the audio callback process() (lib.rs 126-155);                      *)
(*   - the environment: the web UI posting payloads, and the host writing  *)
(*     automation values between process() calls.                         *)
(*                                                                         *)
(* Numbers.  Normalized values and the f32 `value` of an inbound payload   *)
(* are counted in units of 1/NormDen (quarters).  pow and amount are kept   *)
(* in the same units (pow 10.0 is 40, amount 0.5 is 2).  A gain amplitude   *)
(* is represented by its decibel value (amplitude = db_to_gain(dB)); the   *)
(* skewed gain range is evaluated at the three normalized points where     *)
(* gain_skew_factor determines it exactly: 0, 1/2 and 1.  Floating-point   *)
(* rounding is not modelled.                                               *)
(*                                                                         *)
(* Library behaviour assumed (nih_plug / nih_plug_webview are not part of  *)
(* the repository): ParamSetter applies a value at once; a parameter's     *)
(* callback runs only when its plain value changes; next_event() is a      *)
(* non-blocking receive; send_json() delivers.                             *)
(***************************************************************************)
EXTENDS Integers, Sequences, FiniteSets, TLC

VARIABLES
    params,              \* GainParams: gain, length, pow, amount (value, normalized)
    gain_value_changed,  \* GainParams.gain_value_changed (AtomicBool)
    gain_smoothed,       \* params.gain.smoothed (Logarithmic smoother)
    size,                \* ctx.width, ctx.height
    queue,               \* inbound channel read by ctx.next_event()
    ctl_pc,              \* position of the event-loop handler
    action,              \* the decoded Action being handled
    log,                 \* calls made by the handler in the current cycle
    outbox,              \* notifications sent in the current cycle
    ui_gain,             \* value of the last param_change delivered to the UI
    audio_pc,            \* position of process()
    tempo,               \* SoutGainRs.tempo
    block,               \* the block being processed: transport, size, channels
    buffer,              \* samples processed so far in the block
    posted,              \* payloads posted by the UI so far
    automated,           \* host automation writes so far
    changes,             \* gain value changes so far (callback invocations)
    unseen,              \* gain value changes since the last exchange of the flag
    emitted              \* param_change notifications sent so far

vars == <<params, gain_value_changed, gain_smoothed, size, queue, ctl_pc, action,
          log, outbox, ui_gain, audio_pc, tempo, block, buffer, posted, automated,
          changes, unseen, emitted>>

ctlVars == <<queue, ctl_pc, action, log, outbox, ui_gain, size, emitted>>
audioVars == <<audio_pc, tempo, block, buffer>>
paramVars == <<params, gain_value_changed, gain_smoothed, changes, unseen>>

-----------------------------------------------------------------------------
(* Bounds of the model *)

MaxMsgs == 2        \* payloads the UI posts in a run
MaxAuto == 1        \* host automation writes in a run
MaxBlock == 2       \* samples in a block
SmoothSteps == 2    \* samples the gain smoother takes to reach its target

-----------------------------------------------------------------------------
(* Program constants *)

GainMinDb == -30
GainMaxDb == 30
GainDefaultDb == 0
LengthMin == 0
LengthMax == 4
LengthDefault == 0
PowMax == 20
PowDefault == 10
DefaultTempo == 120
EditorSize == 200
DbFactor == 50

NormDen == LengthMax - LengthMin     \* one normalized unit is 1/NormDen
Q(x) == x * NormDen                  \* a number in units of 1/NormDen
Half == NormDen \div 2

ParamIds == {"gain", "length", "pow", "amount"}

None == [some |-> FALSE]
Some(v) == [some |-> TRUE, v |-> v]

Clamp(x, lo, hi) == IF x < lo THEN lo ELSE IF x > hi THEN hi ELSE x

-----------------------------------------------------------------------------
(* ParameterModel: ranges and conversions (lib.rs 60-88) *)

\* FloatRange::gain_skew_factor(-30, 30): normalized 1/2 is the middle of the
\* decibel range.
GainMiddleDb == (GainMinDb + GainMaxDb) \div 2

\* FloatRange::Skewed, normalize: clamp, then ((plain - min)/(max - min))^factor.
SkewedNormalize(db) ==
    LET c == Clamp(db, GainMinDb, GainMaxDb)
    IN  CASE c = GainMinDb -> 0
          [] c = GainMiddleDb -> Half
          [] c = GainMaxDb -> NormDen

\* FloatRange::Skewed, unnormalize: clamp, then n^(1/factor) * (max - min) + min.
SkewedUnnormalize(n) ==
    LET c == Clamp(n, 0, NormDen)
    IN  CASE c = 0 -> GainMinDb
          [] c = Half -> GainMiddleDb
          [] c = NormDen -> GainMaxDb

\* FloatRange::Linear {min, max}
LinearNormalize(plain, min, max) ==
    ((Clamp(plain, min, max) - min) * NormDen) \div (max - min)

\* A conversion that does not clamp.
LinearUnnormalizeUnclamped(n, min, max) ==
    min + (n * (max - min)) \div NormDen

LinearUnnormalize(n, min, max) ==
    min + (Clamp(n, 0, NormDen) * (max - min)) \div NormDen

\* IntRange::Linear {min, max}: unnormalize rounds to the nearest integer.
IntNormalize(plain, min, max) ==
    ((Clamp(plain, min, max) - min) * NormDen) \div (max - min)

IntUnnormalize(n, min, max) ==
    (2 * Clamp(n, 0, NormDen) * (max - min) + NormDen) \div (2 * NormDen) + min

\* The range of each parameter, in the units its plain value is kept in.
RangeMin(p) ==
    CASE p = "gain" -> GainMinDb
      [] p = "length" -> LengthMin
      [] p = "pow" -> Q(0)
      [] p = "amount" -> Q(0)

RangeMax(p) ==
    CASE p = "gain" -> GainMaxDb
      [] p = "length" -> LengthMax
      [] p = "pow" -> Q(PowMax)
      [] p = "amount" -> Q(1)

PreviewNormalized(p, plain) ==
    CASE p = "gain" -> SkewedNormalize(plain)
      [] p = "length" -> IntNormalize(plain, RangeMin(p), RangeMax(p))
      [] OTHER -> LinearNormalize(plain, RangeMin(p), RangeMax(p))

PreviewPlain(p, n) ==
    CASE p = "gain" -> SkewedUnnormalize(n)
      [] p = "length" -> IntUnnormalize(n, RangeMin(p), RangeMax(p))
      [] OTHER -> LinearUnnormalize(n, RangeMin(p), RangeMax(p))

ParamOf(plain, p) == [value |-> plain, normalized |-> PreviewNormalized(p, plain)]

\* GainParams::default()
DefaultParams ==
    [p \in ParamIds |->
        CASE p = "gain" -> ParamOf(GainDefaultDb, p)
          [] p = "length" -> ParamOf(LengthDefault, p)
          [] p = "pow" -> ParamOf(Q(PowDefault), p)
          [] p = "amount" -> ParamOf(Half, p)]

\* A callback that forgets the store.
ParamCallbackNoStore(flag) == flag

\* param_callback: v.store(true, Relaxed)
ParamCallback(flag) == TRUE

\* A callback attached to every parameter.
HasCallbackAll(p) == TRUE

\* with_callback(param_callback) is attached to gain only.
HasCallback(p) == p = "gain"

-----------------------------------------------------------------------------
(* Smoother of gain: SmoothingStyle::Logarithmic, linear in decibels *)

SetTarget(s, target) ==
    [cur |-> s.cur, target |-> target, left |-> SmoothSteps,
     step |-> (target - s.cur) \div SmoothSteps]

\* Smoother::next(): the state after the call; the value returned is its cur.
SmootherNext(s) ==
    IF s.left > 0
    THEN [s EXCEPT !.left = s.left - 1,
                   !.cur = IF s.left = 1 THEN s.target ELSE s.cur + s.step]
    ELSE [s EXCEPT !.cur = s.target]

\* A parameter write, as ParamMut::set_normalized_value does it: convert to
\* plain; when the plain value differs from the stored one, store it with its
\* normalized value, run the callback and retarget the smoother.
SetNormalizedValue(p, n) ==
    LET plain == PreviewPlain(p, n)
        differs == plain # params[p].value
    IN  /\ params' = IF differs THEN [params EXCEPT ![p] = ParamOf(plain, p)] ELSE params
        /\ gain_value_changed' =
              IF differs /\ HasCallback(p) THEN ParamCallback(gain_value_changed)
              ELSE gain_value_changed
        /\ changes' = IF differs /\ p = "gain" THEN changes + 1 ELSE changes
        /\ unseen' = IF differs /\ p = "gain" THEN unseen + 1 ELSE unseen
        /\ gain_smoothed' =
              IF differs /\ p = "gain" THEN SetTarget(gain_smoothed, plain)
              ELSE gain_smoothed

-----------------------------------------------------------------------------
(* Inbound payloads and their decoding (lib.rs 14-23, 190) *)

ActionTags == {"Init", "SetSize", "SetGain", "SetLength", "SetPow", "SetAmount"}
SetTags == {"SetGain", "SetLength", "SetPow", "SetAmount"}

\* f32 values a Set* payload carries, in units of 1/NormDen: for each
\* variant some inside its parameter's range and some outside.
Values(t) ==
    CASE t = "SetGain" -> {-Half, NormDen}                        \* -0.5, 1.0
      [] t = "SetLength" -> {-Half, NormDen + Half, Q(5) + Half}  \* -0.5, 1.5, 5.5
      [] t = "SetPow" -> {0, NormDen + Half}                      \* 0.0, 1.5
      [] t = "SetAmount" -> {NormDen, Q(5) + Half}                \* 1.0, 5.5

WellFormed ==
    {[type |-> "Init"]}
    \cup {[type |-> "SetSize", width |-> 2 * EditorSize, height |-> EditorSize]}
    \cup UNION {{[type |-> t, value |-> v] : v \in Values(t)} : t \in SetTags}

\* An unknown tag, a variant's field missing.
Malformed ==
    {[type |-> "Reset"], [type |-> "SetGain"]}

Payloads == WellFormed \cup Malformed

NoAction == [tag |-> "none"]

\* serde_json::from_value::<Action>: internally tagged by "type"; a variant's
\* fields must be present; unknown fields are ignored.
Decode(p) ==
    IF "type" \notin DOMAIN p THEN [ok |-> FALSE]
    ELSE IF p.type = "Init" THEN [ok |-> TRUE, action |-> [tag |-> "Init"]]
    ELSE IF p.type = "SetSize" /\ {"width", "height"} \subseteq DOMAIN p
        THEN [ok |-> TRUE,
              action |-> [tag |-> "SetSize", width |-> p.width, height |-> p.height]]
    ELSE IF p.type \in SetTags /\ "value" \in DOMAIN p
        THEN [ok |-> TRUE, action |-> [tag |-> p.type, value |-> p.value]]
    ELSE [ok |-> FALSE]

\* An else branch that skips the payload.
InvalidActionSkipped == "drain"

\* An else branch that leaves the while loop and goes on to the flag.
InvalidActionBreaks == "swap"

\* The else branch of `if let Ok(action)`: panic!("Invalid action received ...")
InvalidAction == "panicked"

\* The parameter each Set* arm names in its three setter calls.
BeginParam(tag) ==
    CASE tag = "SetGain" -> "gain"
      [] tag = "SetLength" -> "length"
      [] tag = "SetPow" -> "pow"
      [] tag = "SetAmount" -> "amount"

SetParam(tag) == BeginParam(tag)

\* An end call that always names gain.
EndParamGain(tag) == "gain"

EndParam(tag) == BeginParam(tag)

\* `value as i32`: truncation toward zero.
AsI32(v) == IF v >= 0 THEN v \div NormDen ELSE -((-v) \div NormDen)

\* A SetLength arm that passes value on as a normalized value.
SetValueNormalized(tag, v) == v

\* The normalized value the arm's set call passes on: SetLength passes
\* set_parameter(value as i32), which ParamSetter normalizes; the others pass
\* value to set_parameter_normalized as it is.
SetValue(tag, v) ==
    IF tag = "SetLength" THEN PreviewNormalized("length", AsI32(v)) ELSE v

\* An Init arm that sends nothing.
ArmOfInitSilent(tag) ==
    CASE tag \in SetTags -> "begin"
      [] tag = "SetSize" -> "resize"
      [] tag = "Init" -> "drain"

\* Where the handler goes after decoding an action.
ArmOf(tag) ==
    CASE tag \in SetTags -> "begin"
      [] tag = "SetSize" -> "resize"
      [] tag = "Init" -> "init"

-----------------------------------------------------------------------------
(* The state after construction *)

\* No call of process() is under way.
NoBlock == [tempo |-> None, pos |-> None, n |-> 0, ch |-> 1, err |-> ""]

Init ==
    /\ params = DefaultParams
    /\ gain_value_changed = FALSE
    /\ gain_smoothed = [cur |-> GainDefaultDb, target |-> GainDefaultDb,
                        left |-> 0, step |-> 0]
    /\ size = <<EditorSize, EditorSize>>
    /\ queue = <<>>
    /\ ctl_pc = "idle"
    /\ action = NoAction
    /\ log = <<>>
    /\ outbox = <<>>
    /\ ui_gain = None
    /\ audio_pc = "idle"
    /\ tempo = DefaultTempo
    /\ block = NoBlock
    /\ buffer = <<>>
    /\ posted = 0
    /\ automated = 0
    /\ changes = 0
    /\ unseen = 0
    /\ emitted = 0

-----------------------------------------------------------------------------
(* Environment *)

\* The web UI posts a payload on the channel.
UiPost(p) ==
    /\ posted < MaxMsgs
    /\ queue' = Append(queue, p)
    /\ posted' = posted + 1
    /\ UNCHANGED <<ctl_pc, action, log, outbox, ui_gain, size, emitted>>
    /\ UNCHANGED <<paramVars, audioVars, automated>>

\* Normalized values the host writes: 0 and 1.5
AutoValues == {0, NormDen + Half}

\* The host writes an automation value; the wrapper applies it on the audio
\* thread before it calls process().
HostAutomate(p, n) ==
    /\ automated < MaxAuto
    /\ audio_pc = "idle"
    /\ SetNormalizedValue(p, n)
    /\ automated' = automated + 1
    /\ UNCHANGED <<ctlVars, audioVars, posted>>

-----------------------------------------------------------------------------
(* The editor's event loop handler (lib.rs 188-236) *)

\* The editor calls the handler.
Wake ==
    /\ ctl_pc = "idle"
    /\ ctl_pc' = "drain"
    /\ UNCHANGED <<queue, action, log, outbox, ui_gain, size, emitted>>
    /\ UNCHANGED <<paramVars, audioVars, posted, automated>>

\* while let Ok(value) = ctx.next_event(): a payload is there; decode it.
NextEvent ==
    /\ ctl_pc = "drain"
    /\ queue # <<>>
    /\ LET d == Decode(Head(queue))
       IN  /\ queue' = Tail(queue)
           /\ IF d.ok
              THEN /\ action' = d.action
                   /\ ctl_pc' = ArmOf(d.action.tag)
                   /\ log' = Append(log, <<"handle", d.action.tag>>)
              ELSE /\ action' = NoAction
                   /\ ctl_pc' = InvalidAction
                   /\ log' = Append(log, <<"invalid", "">>)
    /\ UNCHANGED <<outbox, ui_gain, size, emitted>>
    /\ UNCHANGED <<paramVars, audioVars, posted, automated>>

\* next_event() returns Err: the channel is empty, the while loop ends.
NoMoreEvents ==
    /\ ctl_pc = "drain"
    /\ queue = <<>>
    /\ ctl_pc' = "swap"
    /\ log' = Append(log, <<"drained", "">>)
    /\ UNCHANGED <<queue, action, outbox, ui_gain, size, emitted>>
    /\ UNCHANGED <<paramVars, audioVars, posted, automated>>

\* setter.begin_set_parameter(&params.X)
BeginSetParameter ==
    /\ ctl_pc = "begin"
    /\ log' = Append(log, <<"begin", BeginParam(action.tag)>>)
    /\ ctl_pc' = "set"
    /\ UNCHANGED <<queue, action, outbox, ui_gain, size, emitted>>
    /\ UNCHANGED <<paramVars, audioVars, posted, automated>>

\* setter.set_parameter_normalized(&params.X, value), or for SetLength
\* setter.set_parameter(&params.length, value as i32)
SetParameter ==
    /\ ctl_pc = "set"
    /\ SetNormalizedValue(SetParam(action.tag), SetValue(action.tag, action.value))
    /\ log' = Append(log, <<"set", SetParam(action.tag)>>)
    /\ ctl_pc' = "end"
    /\ UNCHANGED <<queue, action, outbox, ui_gain, size, emitted>>
    /\ UNCHANGED <<audioVars, posted, automated>>

\* setter.end_set_parameter(&params.X)
EndSetParameter ==
    /\ ctl_pc = "end"
    /\ log' = Append(log, <<"end", EndParam(action.tag)>>)
    /\ action' = NoAction
    /\ ctl_pc' = "drain"
    /\ UNCHANGED <<queue, outbox, ui_gain, size, emitted>>
    /\ UNCHANGED <<paramVars, audioVars, posted, automated>>

\* Action::SetSize: ctx.resize(window, width, height)
Resize ==
    /\ ctl_pc = "resize"
    /\ size' = <<action.width, action.height>>
    /\ log' = Append(log, <<"resize", "">>)
    /\ action' = NoAction
    /\ ctl_pc' = "drain"
    /\ UNCHANGED <<queue, outbox, ui_gain, emitted>>
    /\ UNCHANGED <<paramVars, audioVars, posted, automated>>

\* Action::Init: send set_size with ctx.width and ctx.height
SendSetSize ==
    /\ ctl_pc = "init"
    /\ outbox' = Append(outbox, [type |-> "set_size", width |-> size[1], height |-> size[2]])
    /\ log' = Append(log, <<"send", "set_size">>)
    /\ action' = NoAction
    /\ ctl_pc' = "drain"
    /\ UNCHANGED <<queue, ui_gain, size, emitted>>
    /\ UNCHANGED <<paramVars, audioVars, posted, automated>>

\* A handler that sends whatever the exchange returned.
AfterSwapAlways(was) == "emit"

\* Where the handler goes after gain_value_changed.swap(false) returned `was`.
AfterSwap(was) == IF was THEN "emit" ELSE "return"

\* if gain_value_changed.swap(false, Relaxed)
SwapFlag ==
    /\ ctl_pc = "swap"
    /\ gain_value_changed' = FALSE
    /\ ctl_pc' = AfterSwap(gain_value_changed)
    /\ log' = Append(log, <<"swap", IF gain_value_changed THEN "true" ELSE "false">>)
    /\ UNCHANGED <<queue, action, outbox, ui_gain, size, emitted>>
    /\ unseen' = 0
    /\ UNCHANGED <<params, gain_smoothed, changes, audioVars, posted, automated>>

\* A payload that carries gain's plain value.
ParamChangePlain ==
    [type |-> "param_change", param |-> "gain",
     value |-> params["gain"].value,
     text |-> [db |-> params["gain"].value, digits |-> 2]]

\* The param_change payload: gain's normalized value and its display text
\* (decibels, two decimals), both read when the payload is built.
ParamChange ==
    [type |-> "param_change", param |-> "gain",
     value |-> params["gain"].normalized,
     text |-> [db |-> params["gain"].value, digits |-> 2]]

\* ctx.send_json(param_change)
SendParamChange ==
    /\ ctl_pc = "emit"
    /\ outbox' = Append(outbox, ParamChange)
    /\ ui_gain' = Some(ParamChange.value)
    /\ emitted' = emitted + 1
    /\ log' = Append(log, <<"send", "param_change">>)
    /\ ctl_pc' = "return"
    /\ UNCHANGED <<queue, action, size>>
    /\ UNCHANGED <<paramVars, audioVars, posted, automated>>

\* The handler returns to the editor; the cycle is over.
Return ==
    /\ ctl_pc = "return"
    /\ ctl_pc' = "idle"
    /\ log' = <<>>
    /\ outbox' = <<>>
    /\ UNCHANGED <<queue, action, ui_gain, size, emitted>>
    /\ UNCHANGED <<paramVars, audioVars, posted, automated>>

-----------------------------------------------------------------------------
(* process() (lib.rs 126-155) *)

MsPerSecond == 1000
SecondsPerMinute == 60

\* Transport the host may report for a block: tempo in BPM, position in ms.
Tempos == {None, Some(DefaultTempo), Some(90)}
Positions == {None, Some(0), Some(250), Some(MsPerSecond)}
Channels == {1, 2}

\* self.tempo / 60.0 * second % length, in units of 1/60000 beat.
Beat(bpm, pos_ms, length) ==
    (bpm * pos_ms) % (length * SecondsPerMinute * MsPerSecond)

\* One unit of the power term is 1/PowScale.
PowScale == 30000

\* (beat as f32 + 1.0).powf(-pow) for a whole pow, in units of 1/PowScale:
\* 1/(beat + 1) multiplied pow times, beat in units of 1/60000 beat.
RECURSIVE Powf(_, _)
Powf(beat, pow) ==
    IF pow <= 0 THEN PowScale
    ELSE (Powf(beat, pow - NormDen) * SecondsPerMinute * MsPerSecond)
            \div (SecondsPerMinute * MsPerSecond + beat)

\* An attenuation without its sign.
FinalDbUnsigned(beat, pow, amount) == Powf(beat, pow) * DbFactor * amount

\* final_db = -((beat + 1)^(-pow)) * 50 * amount, in units of
\* 1/(PowScale * NormDen) dB.
FinalDb(beat, pow, amount) == -(Powf(beat, pow) * DbFactor * amount)

\* util::db_to_gain(final_db), kept by final_db and by what it was computed
\* from: the `second` read, the beat, pow and amount.
\* A remainder by zero is NaN in f64: no beat.
Envelope(bpm, pos_ms, length, pow, amount) ==
    [f |-> "env",
     second |-> pos_ms,
     beat |-> IF length = 0 THEN None ELSE Some(Beat(bpm, pos_ms, length)),
     pow |-> pow, amount |-> amount, scale |-> DbFactor,
     db |-> IF length = 0 THEN None
            ELSE Some(FinalDb(Beat(bpm, pos_ms, length), pow, amount))]

\* A test that lets length 0 through.
EnvelopeActiveFromZero(length) == length >= 0

\* Whether the body of `if length > 0` runs.
EnvelopeActive(length) == length > 0

\* The factors one sample is multiplied by, in order.
SampleFactors(bpm, pos, gain, length, pow, amount) ==
    (IF EnvelopeActive(length)
     THEN <<Envelope(bpm, pos.v, length, pow, amount)>>
     ELSE <<>>)
    \o <<[f |-> "gain", db |-> gain]>>

\* A tempo read that falls back on the stored tempo.
TempoExpectLenient(t) == "running"

\* What tempo.expect("err: cannot get tempo") does with the host's tempo.
TempoExpect(t) == IF t.some THEN "running" ELSE "panicked"

\* Whether pos_seconds().expect(...) is evaluated and fails for a sample.
PosExpectFails(length, pos) == EnvelopeActive(length) /\ ~pos.some

\* The host calls process() with a block.
ProcessBegin(t, pos, n, ch) ==
    /\ audio_pc = "idle"
    /\ audio_pc' = TempoExpect(t)
    /\ tempo' = IF t.some THEN t.v ELSE tempo
    /\ block' = [tempo |-> t, pos |-> pos, n |-> n, ch |-> ch,
                 err |-> IF t.some THEN "" ELSE "err: cannot get tempo"]
    /\ buffer' = <<>>
    /\ UNCHANGED <<ctlVars, paramVars, posted, automated>>

\* One iteration of `for channel_samples in buffer.iter_samples()`.
ProcessSample ==
    /\ audio_pc = "running"
    /\ Len(buffer) < block.n
    /\ LET s == SmootherNext(gain_smoothed)
           length == params["length"].value
           amount == params["amount"].value
           pow == params["pow"].value
       IN  /\ gain_smoothed' = s
           /\ IF PosExpectFails(length, block.pos)
              THEN /\ audio_pc' = "panicked"
                   /\ block' = [block EXCEPT !.err = "err: cannot get seconds"]
                   /\ buffer' = buffer
              ELSE /\ audio_pc' = audio_pc
                   /\ block' = block
                   /\ buffer' = Append(buffer,
                         [c \in 1..block.ch |->
                             SampleFactors(tempo, block.pos, s.cur, length, pow, amount)])
    /\ UNCHANGED tempo
    /\ UNCHANGED <<ctlVars, params, gain_value_changed, changes, unseen, posted, automated>>

\* A return that waits for the editor's thread to close its bracket.
ProcessEndAfterBracket ==
    /\ ctl_pc \notin {"begin", "set", "end"}
    /\ audio_pc = "running"
    /\ Len(buffer) = block.n
    /\ audio_pc' = "finished"
    /\ UNCHANGED <<tempo, block, buffer>>
    /\ UNCHANGED <<ctlVars, paramVars, posted, automated>>

\* The loop is over: ProcessStatus::Normal
ProcessEnd ==
    /\ audio_pc = "running"
    /\ Len(buffer) = block.n
    /\ audio_pc' = "finished"
    /\ UNCHANGED <<tempo, block, buffer>>
    /\ UNCHANGED <<ctlVars, paramVars, posted, automated>>

\* process() has returned; the host owns the buffer again.
ProcessReturn ==
    /\ audio_pc = "finished"
    /\ audio_pc' = "idle"
    /\ buffer' = <<>>
    /\ block' = NoBlock
    /\ UNCHANGED tempo
    /\ UNCHANGED <<ctlVars, paramVars, posted, automated>>

-----------------------------------------------------------------------------
(* Specifications *)

Environment ==
    \/ \E p \in Payloads : UiPost(p)
    \/ \E p \in ParamIds, n \in AutoValues : HostAutomate(p, n)

EventLoop ==
    \/ Wake
    \/ NextEvent
    \/ NoMoreEvents
    \/ BeginSetParameter
    \/ SetParameter
    \/ EndSetParameter
    \/ Resize
    \/ SendSetSize
    \/ SwapFlag
    \/ SendParamChange
    \/ Return

Process ==
    \/ \E t \in Tempos, pos \in Positions, n \in 0..MaxBlock, ch \in Channels :
          ProcessBegin(t, pos, n, ch)
    \/ ProcessSample
    \/ ProcessEnd
    \/ ProcessReturn

\* The editor's thread with its environment.
Next == Environment \/ EventLoop

Spec == Init /\ [][Next]_vars

\* The writers of gain and the handler: the UI's SetGain, host automation of
\* gain, and one payload of every other kind.
GainPayloads ==
    {[type |-> "Init"],
     [type |-> "SetSize", width |-> 2 * EditorSize, height |-> EditorSize],
     [type |-> "SetGain", value |-> -Half],
     [type |-> "SetGain", value |-> NormDen],
     [type |-> "Reset"]}

NextHandshake ==
    \/ \E p \in GainPayloads : UiPost(p)
    \/ \E n \in AutoValues : HostAutomate("gain", n)
    \/ EventLoop

\* The editor calls the handler on every frame for as long as it is open.
SpecHandshake == Init /\ [][NextHandshake]_vars /\ WF_vars(EventLoop)

\* The audio thread with host automation.
NextAudio ==
    \/ \E p \in ParamIds, n \in AutoValues : HostAutomate(p, n)
    \/ Process

SpecAudio == Init /\ [][NextAudio]_vars

\* Parameter values a host has restored from a saved state: length, pow and
\* amount at the ends and in the middle of their ranges.
RestoredParams ==
    {[p \in ParamIds |->
         CASE p = "gain" -> ParamOf(GainDefaultDb, p)
           [] p = "length" -> ParamOf(l, p)
           [] p = "pow" -> ParamOf(w, p)
           [] p = "amount" -> ParamOf(a, p)] :
       l \in {LengthMin, LengthMax \div 2, LengthMax},
       w \in {Q(0), Q(PowDefault), Q(PowMax)},
       a \in {Q(0), Half, Q(1)}}

InitRestored ==
    /\ params \in RestoredParams
    /\ gain_value_changed = FALSE
    /\ gain_smoothed = [cur |-> GainDefaultDb, target |-> GainDefaultDb,
                        left |-> 0, step |-> 0]
    /\ size = <<EditorSize, EditorSize>>
    /\ queue = <<>>
    /\ ctl_pc = "idle"
    /\ action = NoAction
    /\ log = <<>>
    /\ outbox = <<>>
    /\ ui_gain = None
    /\ audio_pc = "idle"
    /\ tempo = DefaultTempo
    /\ block = NoBlock
    /\ buffer = <<>>
    /\ posted = 0
    /\ automated = 0
    /\ changes = 0
    /\ unseen = 0
    /\ emitted = 0

\* process() on restored parameters, with the host automating gain.
NextEnvelope ==
    \/ \E n \in AutoValues : HostAutomate("gain", n)
    \/ Process

SpecEnvelope == InitRestored /\ [][NextEnvelope]_vars

\* Both threads together, on a few payloads and blocks.
FewPayloads ==
    {[type |-> "Init"],
     [type |-> "SetSize", width |-> 2 * EditorSize, height |-> EditorSize],
     [type |-> "SetGain", value |-> NormDen],
     [type |-> "SetLength", value |-> NormDen],
     [type |-> "Reset"]}

NextBoth ==
    \/ \E p \in FewPayloads : UiPost(p)
    \/ EventLoop
    \/ \E t \in {None, Some(DefaultTempo)}, pos \in {None, Some(0)}, n \in 0..MaxBlock :
          ProcessBegin(t, pos, n, 1)
    \/ ProcessSample
    \/ ProcessEnd
    \/ ProcessReturn

\* Once called, process() runs on the audio thread; nothing is assumed of
\* the editor's thread.
SpecLive == Init /\ [][NextBoth]_vars /\ WF_vars(ProcessSample \/ ProcessEnd)

-----------------------------------------------------------------------------
(* Claims *)

\* The param_change the handler is about to send, counted as sent.
InFlight == IF ctl_pc = "emit" THEN 1 ELSE 0

\* Gain changes an exchange of the flag has already covered.
Covered == changes - unseen

\* C1 as stated: every gain value change produces exactly one param_change.
\* When a cycle is over and nothing is pending, as many notifications have
\* been sent as gain has changed.
C1_OnePerChange ==
    (ctl_pc = "return" /\ ~gain_value_changed) => emitted = changes

\* C1, amended: a gain change raises the flag and the flag stays raised until
\* the handler's next exchange (no change is lost before it is exchanged);
\* the flag is raised only by a change; changes between two exchanges share
\* one notification, so notifications sent or about to be sent never
\* outnumber the changes covered by an exchange, and there is one as soon as
\* a change is covered.
C1_HandshakeInv ==
    /\ (unseen > 0) <=> gain_value_changed
    /\ emitted + InFlight <= Covered
    /\ (Covered > 0) => (emitted + InFlight > 0)

\* A cycle has ended by sending param_change.
Notified ==
    /\ ctl_pc = "return"
    /\ outbox # <<>>
    /\ outbox[Len(outbox)].type = "param_change"

\* C1, amended (continued): and while the handler keeps being called, a
\* change not yet exchanged leads to a param_change, unless the handler has
\* terminated on a malformed payload.
C1_Handshake ==
    /\ []C1_HandshakeInv
    /\ (unseen > 0) ~> (Notified \/ ctl_pc = "panicked")

\* Two gain changes, by the UI and by the host, answered by one notification.
C1_Witness ==
    /\ ctl_pc = "return"
    /\ changes = 2
    /\ emitted = 1
    /\ automated = 1
    /\ ~gain_value_changed

\* Positions of the log, or of the outbox, that satisfy a test.
LogAt(kind, name) == {i \in DOMAIN log : log[i] = <<kind, name>>}
OutAt(type) == {i \in DOMAIN outbox : outbox[i].type = type}

\* Every Init handled has sent its set_size, the one in hand excepted.
OneSetSizePerInit ==
    Cardinality(LogAt("handle", "Init")) =
        Cardinality(OutAt("set_size")) + (IF ctl_pc = "init" THEN 1 ELSE 0)

\* C2 as stated: an Init handled in a cycle sends exactly one set_size, and
\* that set_size comes before any other notification of the cycle.
C2_SetSizeFirst ==
    /\ OneSetSizePerInit
    /\ \A i \in OutAt("set_size") : i = 1

\* C2, amended: an Init handled in a cycle sends exactly one set_size, at
\* once (before the next payload is taken), and that set_size comes before
\* any notification of the cycle other than the set_size of an Init handled
\* earlier in the same cycle; in particular before any param_change.
C2_SetSizeBeforeParamChange ==
    /\ OneSetSizePerInit
    /\ \A i \in LogAt("handle", "Init") :
          IF i = Len(log) THEN ctl_pc = "init" ELSE log[i + 1] = <<"send", "set_size">>
    /\ \A j \in LogAt("send", "set_size") : j > 1 /\ log[j - 1] = <<"handle", "Init">>
    /\ \A i \in OutAt("set_size") : \A j \in 1..(i - 1) : outbox[j].type = "set_size"

\* A cycle that handled Init and then sent param_change.
C2_Witness ==
    /\ ctl_pc = "return"
    /\ Len(outbox) = 2
    /\ outbox[1].type = "set_size"
    /\ outbox[2].type = "param_change"

\* The handler takes the head of the channel.
Dequeues == ctl_pc = "drain" /\ queue # <<>> /\ queue' = Tail(queue)

\* C3: a payload that is none of the six Action variants is fatal: taking it
\* off the channel ends the handler in a panic, it is never skipped, and once
\* the handler has panicked it handles nothing more: it takes no payload,
\* makes no call and sends no notification.
C3_MalformedIsFatal ==
    /\ [](\A i \in DOMAIN log :
            log[i][1] = "invalid" => (i = Len(log) /\ ctl_pc = "panicked"))
    /\ [][(Dequeues /\ Head(queue) \in Malformed) => ctl_pc' = "panicked"]_vars
    /\ [][ctl_pc = "panicked" =>
            /\ ctl_pc' = "panicked"
            /\ log' = log
            /\ outbox' = outbox
            /\ emitted' = emitted
            /\ size' = size
            /\ Len(queue') >= Len(queue)]_vars

\* The handler has panicked on a malformed payload with another payload
\* waiting behind it.
C3_Witness ==
    /\ ctl_pc = "panicked"
    /\ queue # <<>>
    /\ log[Len(log)][1] = "invalid"

\* The parameter an action is about.
NamedParam(tag) ==
    CASE tag = "SetGain" -> "gain"
      [] tag = "SetLength" -> "length"
      [] tag = "SetPow" -> "pow"
      [] tag = "SetAmount" -> "amount"

\* C4: every SetGain, SetLength, SetPow or SetAmount handled is followed by
\* begin, one set and end on its own parameter, in that order and with
\* nothing between them; no begin, set or end occurs anywhere else, so no
\* set is outside a bracket, brackets do not nest or interleave, and a
\* bracket is closed before the next action is handled.
C4_Bracketed ==
    LET n == Len(log)
    IN  /\ \A i \in 1..n :
              (log[i][1] = "handle" /\ log[i][2] \in SetTags) =>
                  LET p == NamedParam(log[i][2])
                  IN  /\ IF i = n THEN ctl_pc = "begin" ELSE log[i + 1] = <<"begin", p>>
                      /\ IF i + 1 = n THEN ctl_pc = "set"
                         ELSE (i + 2 <= n => log[i + 2] = <<"set", p>>)
                      /\ IF i + 2 = n THEN ctl_pc = "end"
                         ELSE (i + 3 <= n => log[i + 3] = <<"end", p>>)
        /\ \A j \in 1..n :
              /\ log[j][1] = "begin" =>
                    (j > 1 /\ log[j - 1][1] = "handle" /\ log[j - 1][2] \in SetTags)
              /\ log[j][1] = "set" => (j > 1 /\ log[j - 1][1] = "begin")
              /\ log[j][1] = "end" => (j > 1 /\ log[j - 1][1] = "set")
        /\ ctl_pc = "begin" => (n > 0 /\ log[n][1] = "handle")
        /\ ctl_pc = "set" => (n > 0 /\ log[n][1] = "begin")
        /\ ctl_pc = "end" => (n > 0 /\ log[n][1] = "set")

\* Two brackets on different parameters, both closed, in one cycle.
C4_Witness ==
    /\ ctl_pc = "drain"
    /\ Len(log) = 8
    /\ log[4][1] = "end"
    /\ log[8][1] = "end"
    /\ log[4][2] # log[8][2]

\* C5 as stated (its last part): the flag is false immediately after the
\* emission of param_change.
C5_FlagClearAfterEmit ==
    [][emitted' = emitted + 1 => ~gain_value_changed']_vars

\* The end of a cycle's log: the channel found empty, the exchange, and
\* param_change exactly when the exchange returned true.
C5_LogInv ==
    LET n == Len(log)
    IN  /\ \A i \in LogAt("send", "param_change") :
              /\ i = n
              /\ i > 2
              /\ log[i - 1] = <<"swap", "true">>
              /\ log[i - 2] = <<"drained", "">>
        /\ \A i \in LogAt("swap", "true") :
              IF i = n THEN ctl_pc = "emit" ELSE log[i + 1] = <<"send", "param_change">>
        /\ \A i \in LogAt("swap", "false") : i = n /\ ctl_pc = "return"
        /\ \A i \in DOMAIN log :
              log[i][1] = "swap" => \A j \in (i + 1)..n : log[j][1] # "handle"
        /\ Cardinality(OutAt("param_change")) <= 1
        /\ \A i \in OutAt("param_change") : outbox[i].param = "gain"
        /\ (ctl_pc = "emit" /\ gain_value_changed) => unseen > 0

\* C5, amended: param_change is sent only for gain, only when the exchange
\* of gain's flag returned true, only after the channel was found empty, and
\* at most once in a cycle; a cycle whose exchange returns false sends none.
\* The flag is false immediately after the exchange that tested it; at the
\* emission it is true only if gain has changed again since that exchange.
C5_EmitOnlyOnChange ==
    /\ []C5_LogInv
    /\ [][(ctl_pc = "swap" /\ ctl_pc' # "swap") =>
            /\ ~gain_value_changed'
            /\ (ctl_pc' = "emit") = gain_value_changed
            /\ (ctl_pc' = "return") = ~gain_value_changed]_vars
    /\ [][emitted' # emitted =>
            /\ ctl_pc = "emit"
            /\ emitted' = emitted + 1
            /\ (gain_value_changed' => unseen' > 0)]_vars

\* A cycle whose exchange returned true has sent param_change as its last
\* call, and the flag is clear.
C5_Witness ==
    /\ ctl_pc = "return"
    /\ Len(log) > 3
    /\ log[Len(log)] = <<"send", "param_change">>
    /\ ~gain_value_changed

\* C6 as stated: process() hard-fails when the host reports no tempo or no
\* position, whatever length is: a call that returns from a block of samples
\* had both.
C6_HardFailsWithoutTransport ==
    (audio_pc = "finished" /\ block.n > 0) => (block.tempo.some /\ block.pos.some)

\* A sample of the buffer that the envelope was applied to.
HasEnvelope(sample) == \E c \in DOMAIN sample : Len(sample[c]) > 1

\* C6, amended: process() hard-fails when the host reports no tempo, before
\* any sample and whatever length is (also when length = 0); when the host
\* reports no position it hard-fails only on a sample processed while
\* length > 0: with length = 0, or with an empty block, the position is not
\* asked for and the call returns normally.
C6_HardFail ==
    /\ []((audio_pc # "idle" /\ ~block.tempo.some) =>
            /\ audio_pc = "panicked"
            /\ block.err = "err: cannot get tempo"
            /\ buffer = <<>>)
    /\ []((audio_pc = "finished" /\ ~block.pos.some) =>
            \A i \in DOMAIN buffer : ~HasEnvelope(buffer[i]))
    /\ []((audio_pc = "panicked" /\ block.tempo.some) =>
            (~block.pos.some /\ block.err = "err: cannot get seconds"))
    /\ [][(audio_pc = "running"
            /\ (audio_pc' = "panicked" \/ Len(buffer') = Len(buffer) + 1)) =>
            ((audio_pc' = "panicked") = (params["length"].value > 0 /\ ~block.pos.some))]_vars

\* The call has failed on the tempo with the decay unused and samples to do.
C6_Witness ==
    /\ audio_pc = "panicked"
    /\ ~block.tempo.some
    /\ block.pos.some
    /\ block.n > 0
    /\ params["length"].value = 0

\* C7: when length = 0 a sample is multiplied by the smoothed gain only, on
\* every channel, whatever tempo, position, pow and amount are.
C7_Bypass ==
    [][(audio_pc = "running" /\ Len(buffer') = Len(buffer) + 1
          /\ params["length"].value = 0) =>
          /\ DOMAIN buffer'[Len(buffer')] = 1..block.ch
          /\ \A c \in 1..block.ch :
                buffer'[Len(buffer')][c] = <<[f |-> "gain", db |-> gain_smoothed'.cur]>>]_vars

\* A two-channel block done with length = 0, away from the default tempo and
\* pow, with a position known.
C7_Witness ==
    /\ audio_pc = "finished"
    /\ Len(buffer) = MaxBlock
    /\ block.ch = 2
    /\ block.pos.some
    /\ tempo # DefaultTempo
    /\ params["length"].value = 0
    /\ params["pow"].value # Q(PowDefault)

\* C8: every parameter's normalized value is in [0,1] and its plain value in
\* its range, whatever the UI and the host have written; a well-formed
\* payload is never fatal, however far out of range its value is, and the
\* set call it leads to completes.
C8_InRange ==
    /\ [](\A p \in ParamIds :
            /\ params[p].normalized \in 0..NormDen
            /\ params[p].value >= RangeMin(p)
            /\ params[p].value <= RangeMax(p))
    /\ [][(Dequeues /\ Head(queue) \in WellFormed) => ctl_pc' # "panicked"]_vars
    /\ [][ctl_pc = "set" => ctl_pc' \in {"set", "end"}]_vars

\* SetLength with a value above 4 has been applied: length is 4.
C8_Witness ==
    /\ ctl_pc = "end"
    /\ action.tag = "SetLength"
    /\ action.value > Q(LengthMax)
    /\ params["length"].value = LengthMax

\* The integer truncation of a value given in units of 1/NormDen.
Truncation(v) ==
    CHOOSE k \in -Q(8)..Q(8) :
        IF v >= 0 THEN k * NormDen <= v /\ v < (k + 1) * NormDen
        ELSE (k - 1) * NormDen < v /\ v <= k * NormDen

\* The handler's set call on the action in hand.
SetStep == ctl_pc = "set" /\ ctl_pc' = "end"

\* What C9 says of SetGain, SetPow and SetAmount: a value in [0,1] becomes
\* the parameter's normalized value; SetGain 1.0 gives the range maximum.
SetsNormalized ==
    /\ (action.tag \in {"SetGain", "SetPow", "SetAmount"}
          /\ action.value \in 0..NormDen) =>
          params'[NamedParam(action.tag)].normalized = action.value
    /\ (action.tag = "SetGain" /\ action.value = NormDen) =>
          params'["gain"].value = GainMaxDb

\* C9 as stated: ..., and SetLength sets length's raw value to the integer
\* truncation of value.
C9_SetsValue ==
    [][SetStep =>
          /\ SetsNormalized
          /\ action.tag = "SetLength" =>
                params'["length"].value = Truncation(action.value)]_vars

\* C9, amended: ..., and SetLength sets length's raw value to the integer
\* truncation of value clamped to the range 0..4, not to value taken as
\* normalized.
C9_SetsClampedValue ==
    [][SetStep =>
          /\ SetsNormalized
          /\ action.tag = "SetLength" =>
                params'["length"].value =
                    Clamp(Truncation(action.value), LengthMin, LengthMax)]_vars

\* SetGain 1.0 has been applied: gain is at 1.0, +30 dB.
C9_Witness ==
    /\ ctl_pc = "end"
    /\ action.tag = "SetGain"
    /\ action.value = NormDen
    /\ params["gain"].normalized = NormDen
    /\ params["gain"].value = GainMaxDb

\* C10: process() never waits for the editor's thread: in every state of the
\* handler a call under way can take its next step, and with the audio
\* thread running the call ends: it returns, or fails on a missing position.
C10_NeverWaits ==
    /\ [](audio_pc = "running" => ENABLED (ProcessSample \/ ProcessEnd))
    /\ audio_pc = "running" ~>
          (audio_pc = "finished" \/ (audio_pc = "panicked" /\ ~block.pos.some))

\* A call has returned while the handler is inside a bracket, and the
\* handler's write fell between the call's two samples.
C10_Witness ==
    /\ audio_pc = "finished"
    /\ ctl_pc = "end"
    /\ Len(buffer) = 2
    /\ ~HasEnvelope(buffer[1])
    /\ HasEnvelope(buffer[2])

\* The handler takes a step on an action of one of the given variants: it
\* decodes it, or makes one of its arm's calls.
Handling(tags) ==
    /\ ctl_pc' # ctl_pc
    /\ \/ action.tag \in tags
       \/ (ctl_pc = "drain" /\ action'.tag \in tags)

\* The variant the step is about.
HandledTag == IF action.tag \in ActionTags THEN action.tag ELSE action'.tag

\* C11: handling Init or SetSize changes no parameter and does not touch
\* gain's flag; handling SetLength, SetPow or SetAmount changes at most the
\* parameter it names, leaves the other three as they are and does not touch
\* gain's flag; the flag is raised only by a step that changes gain, which is
\* the set call of SetGain or a write of the host, so none of these actions
\* alone leads to a param_change.
C11_Frame ==
    /\ [][Handling({"Init", "SetSize"}) =>
            /\ params' = params
            /\ gain_value_changed' = gain_value_changed
            /\ gain_smoothed' = gain_smoothed]_vars
    /\ [][Handling({"SetLength", "SetPow", "SetAmount"}) =>
            /\ \A p \in ParamIds \ {NamedParam(HandledTag)} : params'[p] = params[p]
            /\ gain_value_changed' = gain_value_changed
            /\ gain_smoothed' = gain_smoothed]_vars
    /\ [][(gain_value_changed' /\ ~gain_value_changed) =>
            /\ params'["gain"] # params["gain"]
            /\ \/ (SetStep /\ action.tag = "SetGain")
               \/ automated' = automated + 1]_vars

\* A cycle that applied SetLength and SetPow, both changing their parameter,
\* has ended with the flag clear and nothing sent.
C11_Witness ==
    /\ ctl_pc = "return"
    /\ automated = 0
    /\ params["length"].value # LengthDefault
    /\ params["pow"].value # Q(PowDefault)
    /\ params["gain"] = DefaultParams["gain"]
    /\ params["amount"] = DefaultParams["amount"]
    /\ ~gain_value_changed
    /\ outbox = <<>>
    /\ emitted = 0

\* The envelope factor of a sample of the buffer (the same on every channel).
EnvelopeOf(sample) == sample[1][1]

\* C12 as stated: within one block, when length > 0, the envelope of the
\* sample at index i is computed from the block's position advanced by the
\* sample counter, so of two samples of a block the later one is computed
\* from a later position.
C12_PositionAdvances ==
    \A i \in DOMAIN buffer : \A j \in DOMAIN buffer :
        (i < j /\ HasEnvelope(buffer[i]) /\ HasEnvelope(buffer[j])) =>
            EnvelopeOf(buffer[j]).second > EnvelopeOf(buffer[i]).second

\* process() has done one more sample of the block.
SampleStep == audio_pc = "running" /\ Len(buffer') = Len(buffer) + 1

\* C13: whenever length > 0 and beat = (tempo/60 * position) mod length is
\* 0, the attenuation is exactly -50 * amount dB whatever pow is, and the
\* sample is multiplied, on every channel, by db_to_gain of that attenuation
\* and then by the smoothed gain.
C13_StartOfCycle ==
    [][(SampleStep /\ params["length"].value > 0
          /\ (tempo * block.pos.v) % (params["length"].value * SecondsPerMinute * MsPerSecond) = 0) =>
          \A c \in 1..block.ch :
              LET fs == buffer'[Len(buffer')][c]
              IN  /\ Len(fs) = 2
                  /\ fs[1].f = "env"
                  /\ fs[1].beat = Some(0)
                  /\ fs[1].pow = params["pow"].value
                  /\ fs[1].db = Some(-(DbFactor * params["amount"].value * PowScale))
                  /\ fs[2] = [f |-> "gain", db |-> gain_smoothed'.cur]]_vars

\* The example: tempo 120, position 1.0 s, length 2, pow 10, amount 0.5 give
\* beat 0 and -25 dB, with gain on its way to a new value.
C13_Witness ==
    /\ audio_pc = "finished"
    /\ tempo = DefaultTempo
    /\ block.pos = Some(MsPerSecond)
    /\ params["length"].value = LengthMax \div 2
    /\ params["pow"].value = Q(PowDefault)
    /\ params["amount"].value = Half
    /\ Len(buffer) = MaxBlock
    /\ EnvelopeOf(buffer[1]).beat = Some(0)
    /\ EnvelopeOf(buffer[1]).db = Some(-(25 * NormDen * PowScale))
    /\ buffer[1][1][2].db # GainDefaultDb

\* The UI's copy of gain is gain's normalized value.
Mirrored == ui_gain = Some(params["gain"].normalized)

\* Gain has changed, every change has been exchanged, and the param_change
\* of the last exchange is not still to be sent.
Settled == changes > 0 /\ unseen = 0 /\ ctl_pc # "emit"

\* C14: param_change carries gain's normalized value as it is when the
\* payload is sent, after the exchange of the flag; so whenever no gain
\* change is left unexchanged and no param_change is left to send (as at the
\* end of a cycle that began after gain's last change), the value of the last
\* param_change is gain's normalized value and the flag is clear; and while
\* the handler keeps being called this comes to hold for good, unless the
\* handler has terminated on a malformed payload.
C14_MirrorConverges ==
    /\ [][emitted' # emitted =>
            /\ log[Len(log)] = <<"swap", "true">>
            /\ outbox'[Len(outbox')].value = params["gain"].normalized
            /\ ui_gain' = Some(params["gain"].normalized)
            /\ params' = params]_vars
    /\ [](Settled => (Mirrored /\ ~gain_value_changed))
    /\ <>[](changes > 0 =>
              (ctl_pc = "panicked" \/ (Mirrored /\ ~gain_value_changed)))

\* Gain was changed by the UI and by the host, two param_change were sent,
\* and a cycle has ended with the UI's copy equal to gain and the flag clear.
C14_Witness ==
    /\ ctl_pc = "return"
    /\ changes = 2
    /\ emitted = 2
    /\ automated = 1
    /\ unseen = 0
    /\ ~gain_value_changed
    /\ Mirrored
    /\ params["gain"] # DefaultParams["gain"]

\* The handler has met a malformed payload in the current cycle.
HasInvalid == \E i \in DOMAIN log : log[i][1] = "invalid"

\* C15: when a malformed payload follows valid actions in one drain, the
\* brackets of those actions are closed (as many begin as set as end on each
\* parameter) and their edits stay: the step that meets the malformed payload
\* changes no parameter, flag or size and sends nothing, and afterwards the
\* handler changes nothing (parameters change only by the host's writes); the
\* handler ends there, before the exchange of the flag, so the cycle sends no
\* param_change and a flag that is set stays set.
C15_NoRollback ==
    /\ [](HasInvalid =>
            /\ ctl_pc = "panicked"
            /\ log[Len(log)][1] = "invalid"
            /\ \A i \in DOMAIN log :
                  /\ log[i][1] \notin {"drained", "swap"}
                  /\ log[i] # <<"send", "param_change">>
            /\ OutAt("param_change") = {}
            /\ \A p \in ParamIds :
                  /\ Cardinality(LogAt("begin", p)) = Cardinality(LogAt("set", p))
                  /\ Cardinality(LogAt("set", p)) = Cardinality(LogAt("end", p)))
    /\ [][(Dequeues /\ ~Decode(Head(queue)).ok) =>
            /\ params' = params
            /\ gain_value_changed' = gain_value_changed
            /\ gain_smoothed' = gain_smoothed
            /\ size' = size
            /\ outbox' = outbox
            /\ emitted' = emitted]_vars
    /\ [][ctl_pc = "panicked" =>
            /\ emitted' = emitted
            /\ (gain_value_changed => gain_value_changed')
            /\ (params' # params => automated' = automated + 1)]_vars

\* SetGain 1.0 and then a malformed payload in one drain: the bracket is
\* closed, gain is at +30 dB, the flag is set and nothing has been sent.
C15_Witness ==
    /\ ctl_pc = "panicked"
    /\ log = <<<<"handle", "SetGain">>, <<"begin", "gain">>, <<"set", "gain">>,
               <<"end", "gain">>, <<"invalid", "">>>>
    /\ automated = 0
    /\ params["gain"].value = GainMaxDb
    /\ gain_value_changed
    /\ outbox = <<>>
    /\ emitted = 0

====
